---- MODULE Spec2Model ----
(***************************************************************************)
(* A model of the documentation compilers of this repository:               *)
(*   - scripts/sync-docs/sync-docs-universal.mjs  (crawlDir, main)          *)
(*   - scripts/sync-docs.js, flat variant         (crawl, finalOutput)      *)
(*   - scripts/sync-docs.js, grouped variant      (crawl, finalOutput)      *)
(*   - sync-vite-docs.js (src/unnamed/part_000)   (walk, finalizeOutput)    *)
(*                                                                         *)
(* A JavaScript string is a sequence of one-character strings, so that the *)
(* regular expressions, trims and path functions of the scripts are        *)
(* computed character by character.                                        *)
(***************************************************************************)
EXTENDS Integers, Sequences, FiniteSets, TLC

VARIABLES
  prog,         \* which script runs: "universal", "syncdocs", "vite", "finalize"
  fs,           \* the file tree under the script's root: a sequence of entries
  rootOk,       \* whether the root directory can be listed
  status,       \* "init", "walking", "walked", "written", "aborted"
  failure,      \* the exception that ended the run, or NoFailure
  stack,        \* the active calls of the recursive walker, innermost last
  visited,      \* the file entries the walker's loop has handled, in order
  outFile,      \* what was written to the output file, or NotWritten
  output,       \* universal: the `output` array of main
  processed,    \* universal: `processed`
  skipped,      \* universal: `skipped`
  logEntries,   \* universal: `logEntries`
  logFile,      \* universal: what was written to the log file, or NoLog
  variant,      \* sync-docs: "flat" or "grouped"
  collected,    \* sync-docs: `collected`
  finalOutput,  \* sync-docs: `finalOutput`
  flatRun,      \* sync-docs: how the flat variant's run ended
  includeBlog,  \* vite: INCLUDE_BLOG_AND_RELEASE_NOTES
  viteOutput,   \* vite: the `output` string
  fileCount,    \* vite: `fileCount`
  sections,     \* vite: the section blocks appended to `output`, in order
  warnings,     \* vite: the files console.warn reported as skipped
  inputText,    \* finalize: a text given to finalizeOutput
  passes        \* finalize: the results of the successive passes over `inputText`

envVars == <<prog, fs, rootOk>>

walkVars == <<status, failure, stack, visited, outFile>>

uvars == <<output, processed, skipped, logEntries>>

universalVars == <<uvars, logFile>>

syncVars == <<variant, collected, finalOutput, flatRun>>

viteVars == <<includeBlog, viteOutput, fileCount, sections, warnings>>

finVars == <<inputText, passes>>

vars == <<envVars, walkVars, universalVars, syncVars, viteVars, finVars>>

------------------------------------------------------------------------------
(* Bounds *)

MaxEntries == 3

------------------------------------------------------------------------------
(* JavaScript strings *)

\* the character U+0060, which a TLA+ string cannot hold
Backtick == "U+0060"

Whitespace == {" ", "\t", "\n", "\r"}

Uppers == <<"A","B","C","D","E","F","G","H","I","J","K","L","M",
            "N","O","P","Q","R","S","T","U","V","W","X","Y","Z">>
Lowers == <<"a","b","c","d","e","f","g","h","i","j","k","l","m",
            "n","o","p","q","r","s","t","u","v","w","x","y","z">>

Lower(c) ==
  IF \E i \in 1..26 : Uppers[i] = c
  THEN Lowers[CHOOSE i \in 1..26 : Uppers[i] = c]
  ELSE c

Upper(c) ==
  IF \E i \in 1..26 : Lowers[i] = c
  THEN Uppers[CHOOSE i \in 1..26 : Lowers[i] = c]
  ELSE c

toLowerCase(s) == [i \in 1..Len(s) |-> Lower(s[i])]

toUpperCase(s) == [i \in 1..Len(s) |-> Upper(s[i])]

MinOf(S) == CHOOSE x \in S : \A y \in S : x <= y

MaxOf(S) == CHOOSE x \in S : \A y \in S : x >= y

\* s has the literal lit at position i
MatchAt(s, i, lit) ==
  /\ i >= 1
  /\ i + Len(lit) - 1 <= Len(s)
  /\ \A k \in 1..Len(lit) : s[i + k - 1] = lit[k]

\* the first position >= i where lit occurs in s, or 0
IndexOfFrom(s, lit, i) ==
  LET ks == {k \in i..(Len(s) - Len(lit) + 1) : MatchAt(s, k, lit)}
  IN  IF ks = {} THEN 0 ELSE MinOf(ks)

includes(s, lit) == IndexOfFrom(s, lit, 1) # 0

startsWith(s, lit) == MatchAt(s, 1, lit)

endsWith(s, lit) == Len(lit) <= Len(s) /\ MatchAt(s, Len(s) - Len(lit) + 1, lit)

\* s from position i to its end
From(s, i) == SubSeq(s, i, Len(s))

trimStart(s) ==
  LET ks == {k \in 1..Len(s) : s[k] \notin Whitespace}
  IN  IF ks = {} THEN <<>> ELSE From(s, MinOf(ks))

trimEnd(s) ==
  LET ks == {k \in 1..Len(s) : s[k] \notin Whitespace}
  IN  IF ks = {} THEN <<>> ELSE SubSeq(s, 1, MaxOf(ks))

trim(s) == trimEnd(trimStart(s))

RECURSIVE join(_, _)
join(parts, sep) ==
  IF parts = <<>> THEN <<>>
  ELSE IF Len(parts) = 1 THEN parts[1]
  ELSE parts[1] \o sep \o join(Tail(parts), sep)

RECURSIVE split(_, _)
split(s, c) ==
  LET k == IndexOfFrom(s, <<c>>, 1)
  IN  IF k = 0 THEN <<s>>
      ELSE <<SubSeq(s, 1, k - 1)>> \o split(From(s, k + 1), c)

\* the last index of the run of character c that starts at position i
RECURSIVE RunEnd(_, _, _)
RunEnd(s, i, c) ==
  IF i + 1 <= Len(s) /\ s[i + 1] = c THEN RunEnd(s, i + 1, c) ELSE i

\* the last index of the line that position i is on (before its "\n")
LineEnd(s, i) ==
  LET k == IndexOfFrom(s, <<"\n">>, i)
  IN  IF k = 0 THEN Len(s) ELSE k - 1

------------------------------------------------------------------------------
(* Node's path module, on POSIX paths *)

Slash == <<"/">>

pathJoin(dir, name) == dir \o Slash \o name

pathBasename(p) ==
  LET ks == {k \in 1..Len(p) : p[k] = "/"}
  IN  IF ks = {} THEN p ELSE From(p, MaxOf(ks) + 1)

pathExtname(p) ==
  LET b  == pathBasename(p)
      ks == {k \in 1..Len(b) : b[k] = "."}
  IN  IF ks = {} \/ MaxOf(ks) = 1 THEN <<>> ELSE From(b, MaxOf(ks))

pathBasenameExt(p, ext) ==
  LET b == pathBasename(p)
  IN  IF ext # <<>> /\ b # ext /\ endsWith(b, ext)
      THEN SubSeq(b, 1, Len(b) - Len(ext))
      ELSE b

------------------------------------------------------------------------------
(* The file tree.  Entry i lies in directory fs[i].parent (0 is the root);   *)
(* a directory lists its entries in the order of their indices.             *)

Ids == [i \in 1..Len(fs) |-> i]

\* fs.readdirSync(dir, { withFileTypes: true })
Children(d) == SelectSeq(Ids, LAMBDA i : fs[i].parent = d)

Listable(d) == IF d = 0 THEN rootOk ELSE fs[d].ok

RECURSIVE relPath(_)
relPath(i) ==
  IF fs[i].parent = 0 THEN fs[i].name
  ELSE pathJoin(relPath(fs[i].parent), fs[i].name)

RECURSIVE Ancestors(_)
Ancestors(i) ==
  IF fs[i].parent = 0 THEN {} ELSE {fs[i].parent} \cup Ancestors(fs[i].parent)

Files == {i \in 1..Len(fs) : fs[i].kind = "file"}

MkEntry(p, m) ==
  [parent |-> p, name |-> m.name, kind |-> m.kind, ok |-> m.ok, content |-> m.content]

\* entry i lies in the root or in a directory listed before it that can be
\* listed (no walker could see what lies in one that cannot), and the entries
\* of one directory have distinct names
WellFormed(t) ==
  \A i \in 1..Len(t) :
    /\ t[i].parent # 0 => (t[t[i].parent].kind = "dir" /\ t[t[i].parent].ok)
    /\ \A j \in 1..(i - 1) : t[j].parent = t[i].parent => t[j].name # t[i].name

\* fs is a tree of at most MaxEntries entries built from a menu of entries
TreeFrom(menu) ==
  \E n \in 0..MaxEntries :
    \E ps \in [1..n -> 0..(MaxEntries - 1)] :
      /\ \A i \in 1..n : ps[i] < i
      /\ \E ms \in [1..n -> menu] :
           /\ WellFormed([i \in 1..n |-> MkEntry(ps[i], ms[i])])
           /\ fs = [i \in 1..n |-> MkEntry(ps[i], ms[i])]

Dir(name, ok) == [name |-> name, kind |-> "dir", ok |-> ok, content |-> <<>>]

File(name, content) == [name |-> name, kind |-> "file", ok |-> TRUE, content |-> content]

Unreadable(name) == [name |-> name, kind |-> "file", ok |-> FALSE, content |-> <<>>]

------------------------------------------------------------------------------
(* The walkers' call stack *)

NoFailure == [op |-> "none", at |-> 0]

NotWritten == [written |-> FALSE, sections |-> <<>>]

NoLog == [written |-> FALSE, processed |-> 0, skipped |-> 0, lines |-> <<>>]

NoRun == [status |-> "init", failure |-> NoFailure, visited |-> <<>>,
          collected |-> <<>>, finalOutput |-> <<>>]

\* the states of the variables before a script starts
WalkIdle ==
  /\ status = "init"
  /\ failure = NoFailure
  /\ stack = <<>>
  /\ visited = <<>>
  /\ outFile = NotWritten

UniversalIdle ==
  /\ output = <<>>
  /\ processed = 0
  /\ skipped = 0
  /\ logEntries = <<>>
  /\ logFile = NoLog

SyncIdle ==
  /\ variant = "flat"
  /\ collected = <<>>
  /\ finalOutput = <<>>
  /\ flatRun = NoRun

ViteIdle ==
  /\ includeBlog = TRUE
  /\ viteOutput = <<>>
  /\ fileCount = 0
  /\ sections = <<>>
  /\ warnings = <<>>

FinIdle ==
  /\ inputText = <<>>
  /\ passes = <<>>

Top == stack[Len(stack)]

\* the entry the innermost loop handles next
Cur == Head(Top.todo)

\* `continue`: the innermost loop moves to its next entry
Advanced == [stack EXCEPT ![Len(stack)].todo = Tail(@)]

\* a call crawl(dir) whose listing succeeded, made from the innermost loop
Entered(d, group) == Append(Advanced, [dir |-> d, todo |-> Children(d), group |-> group])

AtDir == status = "walking" /\ Top.todo # <<>> /\ fs[Cur].kind = "dir"

AtFile == status = "walking" /\ Top.todo # <<>> /\ fs[Cur].kind = "file"

------------------------------------------------------------------------------
(* scripts/sync-docs/sync-docs-universal.mjs: configuration *)

includeExts ==
  { <<".","m","d">>, <<".","m","d","x">>, <<".","h","t","m","l">>, <<".","h","t","m">>, <<".","t","x","t">>, <<".","j","s">>, <<".","j","s","x">>, <<".","t","s">>, <<".","t","s","x">>,
    <<".","j","s","o","n">>, <<".","y","a","m","l">>, <<".","y","m","l">> }

excludeDirs ==
  { <<"n","o","d","e","_","m","o","d","u","l","e","s">>, <<".","g","i","t">>, <<"d","i","s","t">>, <<"b","u","i","l","d">>, <<".","n","e","x","t">>, <<".","a","s","t","r","o">>, <<".","c","a","c","h","e">> }

skipExts ==
  { <<".","p","n","g">>, <<".","j","p","g">>, <<".","j","p","e","g">>, <<".","g","i","f">>, <<".","s","v","g">>, <<".","w","e","b","p">>, <<".","m","p","4">>, <<".","m","o","v">>, <<".","a","v","i">>,
    <<".","z","i","p">>, <<".","p","d","f">>, <<".","w","o","f","f">>, <<".","w","o","f","f","2">>, <<".","t","t","f">>, <<".","e","o","t">>, <<".","i","c","o">> }

------------------------------------------------------------------------------
(* JavaScript values returned by the parsers, and JSON.stringify(v, null, 2) *)

Str(s) == [type |-> "string", val |-> s]

Undefined == [type |-> "undefined", val |-> <<>>]

Digits == {"0","1","2","3","4","5","6","7","8","9"}

IsNumber(s) == s # <<>> /\ \A k \in 1..Len(s) : s[k] \in Digits

Scalar(s) == IF IsNumber(s) THEN [kind |-> "number", val |-> s, pairs |-> <<>>]
             ELSE [kind |-> "string", val |-> s, pairs |-> <<>>]

Parsed(kind) == [kind |-> kind, val |-> <<>>, pairs |-> <<>>]

\* "key: value" as a pair of a mapping
YamlPair(line) ==
  LET k == IndexOfFrom(line, <<":"," ">>, 1)
  IN  [key |-> SubSeq(line, 1, k - 1), val |-> Scalar(trim(From(line, k + 2)))]

\* yaml.load, for the documents the model reads: an empty document, a null,
\* an empty or an unclosed flow collection, a block mapping of scalars, a scalar
YamlLoad(text) ==
  LET t == trim(text)
      lines == split(t, "\n")
  IN  IF t = <<>> THEN Parsed("undefined")
      ELSE IF t \in {<<"~">>, <<"n","u","l","l">>} THEN Parsed("null")
      ELSE IF t = <<"{","}">> THEN Parsed("emptyobject")
      ELSE IF t = <<"[","]">> THEN Parsed("emptyarray")
      ELSE IF t[1] \in {"[", "{"} THEN Parsed("error")
      ELSE IF \A n \in 1..Len(lines) : includes(lines[n], <<":"," ">>)
           THEN [kind |-> "map", val |-> <<>>,
                 pairs |-> [n \in 1..Len(lines) |-> YamlPair(lines[n])]]
      ELSE Scalar(t)

\* JSON.parse, for the documents the model reads
JsonParse(text) ==
  LET t == trim(text)
  IN  IF t = <<"{","}">> THEN Parsed("emptyobject")
      ELSE IF t = <<"[","]">> THEN Parsed("emptyarray")
      ELSE IF t = <<"n","u","l","l">> THEN Parsed("null")
      ELSE IF IsNumber(t) THEN Scalar(t)
      ELSE Parsed("error")

JsonScalar(v) == IF v.kind = "number" THEN v.val ELSE <<"\"">> \o v.val \o <<"\"">>

JsonStringify(v) ==
  CASE v.kind = "undefined"   -> Undefined
    [] v.kind = "null"        -> Str(<<"n","u","l","l">>)
    [] v.kind = "emptyobject" -> Str(<<"{","}">>)
    [] v.kind = "emptyarray"  -> Str(<<"[","]">>)
    [] v.kind = "map"         ->
         Str(<<"{","\n">> \o
             join([n \in 1..Len(v.pairs) |->
                     <<" "," ","\"">> \o v.pairs[n].key \o <<"\"",":"," ">> \o JsonScalar(v.pairs[n].val)],
                  <<",","\n">>)
             \o <<"\n","}">>)
    [] OTHER                  -> Str(JsonScalar(v))

------------------------------------------------------------------------------
(* extractReadableContent *)

\* s without every segment that runs from `open` to the nearest `close`
RECURSIVE RemoveDelimited(_, _, _)
RemoveDelimited(s, open, close) ==
  LET i == IndexOfFrom(s, open, 1)
      k == IF i = 0 THEN 0 ELSE IndexOfFrom(s, close, i + Len(open))
  IN  IF k = 0 THEN s
      ELSE SubSeq(s, 1, i - 1) \o RemoveDelimited(From(s, k + Len(close)), open, close)

\* querySelectorAll("nav, footer, header, menu, aside").forEach(el => el.remove())
ChromeTags == <<<<"n","a","v">>, <<"f","o","o","t","e","r">>, <<"h","e","a","d","e","r">>, <<"m","e","n","u">>, <<"a","s","i","d","e">>>>

RECURSIVE RemoveChrome(_, _)
RemoveChrome(s, n) ==
  IF n = 0 THEN s
  ELSE RemoveDelimited(RemoveChrome(s, n - 1),
                       <<"<">> \o ChromeTags[n] \o <<">">>, <<"<","/">> \o ChromeTags[n] \o <<">">>)

\* iframe[src*='youtube'] is replaced by a line of text holding its src
RECURSIVE ReplaceYoutubeIframes(_)
ReplaceYoutubeIframes(s) ==
  LET open == <<"<","i","f","r","a","m","e"," ","s","r","c","=","\"">>
      shut == <<"<","/","i","f","r","a","m","e",">">>
      i == IndexOfFrom(s, open, 1)
      q == IF i = 0 THEN 0 ELSE IndexOfFrom(s, <<"\"">>, i + Len(open))
      e == IF q = 0 THEN 0 ELSE IndexOfFrom(s, shut, q)
  IN  IF e = 0 THEN s
      ELSE LET src  == SubSeq(s, i + Len(open), q - 1)
               rest == ReplaceYoutubeIframes(From(s, e + Len(shut)))
           IN  IF includes(src, <<"y","o","u","t","u","b","e">>)
               THEN SubSeq(s, 1, i - 1) \o <<"[","Y","o","u","T","u","b","e"," ","v","i","d","e","o"," ","l","i","n","k","]",":"," ">> \o src \o rest
               ELSE SubSeq(s, 1, e + Len(shut) - 1) \o rest

\* textContent: the text outside the tags
RECURSIVE TextContent(_)
TextContent(s) ==
  LET i == IndexOfFrom(s, <<"<">>, 1)
      k == IF i = 0 THEN 0 ELSE IndexOfFrom(s, <<">">>, i + 1)
  IN  IF k = 0 THEN s
      ELSE SubSeq(s, 1, i - 1) \o TextContent(From(s, k + 1))

\* new JSDOM(content) ... document.body?.textContent?.trim() ?? ""
jsdomBodyText(content) ==
  trim(TextContent(ReplaceYoutubeIframes(RemoveChrome(content, Len(ChromeTags)))))

extractReadableContent(filePath, content) ==
  LET ext == toLowerCase(pathExtname(filePath))
  IN  IF ext \in {<<".","h","t","m","l">>, <<".","h","t","m">>} THEN Str(jsdomBodyText(content))
      ELSE IF ext \in {<<".","y","a","m","l">>, <<".","y","m","l">>}
           THEN IF YamlLoad(content).kind = "error" THEN Str(content)
                ELSE JsonStringify(YamlLoad(content))
      ELSE IF ext = <<".","j","s","o","n">>
           THEN IF JsonParse(content).kind = "error" THEN Str(content)
                ELSE JsonStringify(JsonParse(content))
      ELSE Str(content)

\* fs.readFileSync in a try block: the text, or "" when the read throws
safeRead(i) == IF fs[i].ok THEN fs[i].content ELSE <<>>

------------------------------------------------------------------------------
(* scripts/sync-docs/sync-docs-universal.mjs: crawlDir and main *)

\* the inputs of the universal compiler
UniversalMenu ==
  { Dir(<<"s","r","c">>, TRUE), Dir(<<"s","r","c">>, FALSE), Dir(<<"d","i","s","t">>, TRUE),
    File(<<"a",".","m","d">>, <<"H","i">>), File(<<"a",".","m","d">>, <<" ","\n">>), Unreadable(<<"a",".","m","d">>),
    File(<<"b",".","p","n","g">>, <<"H","i">>), File(<<"c",".","l","o","c","k">>, <<"H","i">>),
    File(<<"d",".","y","m","l">>, <<>>), File(<<"e",".","h","t","m","l">>, <<"<","n","a","v",">","X","<","/","n","a","v",">">>) }

Section(relpath, cleaned) == [file |-> relpath, text |-> cleaned]

LogLine(tag, relpath) == [tag |-> tag, path |-> relpath]

\* readdirSync threw in a call crawlDir(d): the exception unwinds every call
Thrown(op, d) ==
  /\ status' = "aborted"
  /\ failure' = [op |-> op, at |-> d]
  /\ stack' = <<>>

\* a mutant of IsExcludedDir: no directory is excluded
IsExcludedDir_Never(name) == FALSE

\* if (excludeDirs.includes(entry.name)) continue;
IsExcludedDir(name) == name \in excludeDirs

\* a mutant of crawlDir_SkipExt: the skip is counted and not logged
crawlDir_SkipExt_NoLog(rel) ==
  /\ skipped' = skipped + 1
  /\ UNCHANGED <<logEntries, output, processed>>

\* if (skipExts.includes(ext)) { skipped++; logEntries.push(...); continue; }
crawlDir_SkipExt(rel) ==
  /\ skipped' = skipped + 1
  /\ logEntries' = Append(logEntries, LogLine("Skipped", rel))
  /\ UNCHANGED <<output, processed>>

\* main: const output = []; crawlDir(repoRoot, output), up to the first listing
main_Start ==
  /\ prog = "universal"
  /\ status = "init"
  /\ \/ /\ Listable(0)
        /\ status' = "walking"
        /\ stack' = <<[dir |-> 0, todo |-> Children(0), group |-> <<>>]>>
        /\ UNCHANGED failure
     \/ /\ ~Listable(0)
        /\ Thrown("readdir", 0)
  /\ UNCHANGED <<envVars, syncVars, viteVars, finVars, visited, universalVars, outFile>>

\* crawlDir: one round of the loop on a directory entry
crawlDir_Directory ==
  /\ prog = "universal"
  /\ AtDir
  /\ \/ /\ IsExcludedDir(fs[Cur].name)
        /\ stack' = Advanced
        /\ UNCHANGED <<status, failure>>
     \/ /\ ~IsExcludedDir(fs[Cur].name)
        /\ Listable(Cur)
        /\ stack' = Entered(Cur, <<>>)
        /\ UNCHANGED <<status, failure>>
     \/ /\ ~IsExcludedDir(fs[Cur].name)
        /\ ~Listable(Cur)
        /\ Thrown("readdir", Cur)
  /\ UNCHANGED <<envVars, syncVars, viteVars, finVars, visited, universalVars, outFile>>

\* crawlDir: one round of the loop on an entry that is no directory
crawlDir_File ==
  /\ prog = "universal"
  /\ AtFile
  /\ LET ext     == toLowerCase(pathExtname(fs[Cur].name))
         rel     == relPath(Cur)
         cleaned == extractReadableContent(rel, safeRead(Cur))
     IN  \/ /\ ext \in skipExts
            /\ crawlDir_SkipExt(rel)
         \/ /\ ext \notin skipExts
            /\ ext \in includeExts
            /\ cleaned.type = "string" /\ Len(trim(cleaned.val)) > 0
            /\ output' = Append(output, Section(rel, cleaned.val))
            /\ processed' = processed + 1
            /\ logEntries' = Append(logEntries, LogLine("Processed", rel))
            /\ UNCHANGED skipped
         \/ /\ ext \notin skipExts
            /\ ext \in includeExts
            /\ ~(cleaned.type = "string" /\ Len(trim(cleaned.val)) > 0)
            /\ skipped' = skipped + 1
            /\ logEntries' = Append(logEntries, LogLine("Skipped (empty or invalid)", rel))
            /\ UNCHANGED <<output, processed>>
         \/ /\ ext \notin skipExts
            /\ ext \notin includeExts
            /\ skipped' = skipped + 1
            /\ logEntries' = Append(logEntries, LogLine("Skipped (ext)", rel))
            /\ UNCHANGED <<output, processed>>
  /\ visited' = Append(visited, Cur)
  /\ stack' = Advanced
  /\ UNCHANGED <<envVars, syncVars, viteVars, finVars, status, failure, outFile, logFile>>

\* crawlDir: the loop is over and the call returns
crawlDir_Return ==
  /\ prog = "universal"
  /\ status = "walking"
  /\ Top.todo = <<>>
  /\ stack' = SubSeq(stack, 1, Len(stack) - 1)
  /\ status' = IF Len(stack) = 1 THEN "walked" ELSE "walking"
  /\ UNCHANGED <<envVars, syncVars, viteVars, finVars, failure, visited, universalVars, outFile>>

\* main after the walk: the output file, then the summary and the log file
main_Write ==
  /\ prog = "universal"
  /\ status = "walked"
  /\ \/ /\ outFile' = [written |-> TRUE, sections |-> output]
        /\ logFile' = [written |-> TRUE, processed |-> processed,
                       skipped |-> skipped, lines |-> logEntries]
        /\ status' = "written"
        /\ UNCHANGED failure
     \/ /\ status' = "aborted"
        /\ failure' = [op |-> "write", at |-> 0]
        /\ UNCHANGED <<outFile, logFile>>
  /\ UNCHANGED <<envVars, syncVars, viteVars, finVars, stack, visited, uvars>>

UniversalInit ==
  /\ prog = "universal"
  /\ TreeFrom(UniversalMenu)
  /\ rootOk \in BOOLEAN
  /\ WalkIdle
  /\ UniversalIdle
  /\ SyncIdle
  /\ ViteIdle
  /\ FinIdle

UniversalNext ==
  \/ main_Start
  \/ crawlDir_Directory
  \/ crawlDir_File
  \/ crawlDir_Return
  \/ main_Write

SpecUniversal == UniversalInit /\ [][UniversalNext]_vars

------------------------------------------------------------------------------
(* scripts/sync-docs.js: the flat variant (lines 1-56) and the grouped      *)
(* variant (lines 58-118).  The statements of the grouped variant follow   *)
(* those of the flat one in the file and run on the same tree.              *)

VALID_EXT == { <<".","m","d">>, <<".","m","d","x">>, <<".","h","t","m","l">> }

EXCLUDE_DIRS_flat == { <<"i","m","a","g","e","s">>, <<"p","u","b","l","i","c">>, <<"_","d","a","t","a">> }

EXCLUDE_DIRS_grouped == { <<"i","m","a","g","e","s">>, <<"p","u","b","l","i","c">>, <<"_","d","a","t","a">>, <<".","v","i","t","e","p","r","e","s","s">> }

\* /\n{3,}/g -> "\n\n"
RECURSIVE CollapseNewlines(_)
CollapseNewlines(s) ==
  LET i == IndexOfFrom(s, <<"\n","\n","\n">>, 1)
  IN  IF i = 0 THEN s
      ELSE SubSeq(s, 1, i - 1) \o <<"\n","\n">>
           \o CollapseNewlines(From(s, RunEnd(s, i, "\n") + 1))

\* RemoveDelimited with the `i` flag: letters match in either case
RECURSIVE RemoveDelimitedCI(_, _, _)
RemoveDelimitedCI(s, open, close) ==
  LET low == toLowerCase(s)
      i == IndexOfFrom(low, open, 1)
      k == IF i = 0 THEN 0 ELSE IndexOfFrom(low, close, i + Len(open))
  IN  IF k = 0 THEN s
      ELSE SubSeq(s, 1, i - 1) \o RemoveDelimitedCI(From(s, k + Len(close)), open, close)

\* the "basic content cleaning rules" of both variants
cleanContent(content) ==
  CollapseNewlines(
    RemoveDelimitedCI(
      RemoveDelimitedCI(
        RemoveDelimited(content, <<"-","-","-">>, <<"-","-","-">>),
        <<"<","s","t","y","l","e">>, <<"<","/","s","t","y","l","e",">">>),
      <<"<","s","c","r","i","p","t">>, <<"<","/","s","c","r","i","p","t",">">>))

\* `# ${item.name}\n\n${clean.trim()}\n`
DocSection(name, clean) == [kind |-> "section", title |-> name, body |-> trim(clean)]

Header == [kind |-> "header", title |-> <<"V","I","T","E"," ","D","O","C","U","M","E","N","T","A","T","I","O","N">>, body |-> <<>>]

GroupHeading(section) == [kind |-> "group", title |-> toUpperCase(section), body |-> <<>>]

\* the inputs of the two sync-docs scripts
SyncDocsMenu ==
  { Dir(<<"g","u","i","d","e">>, TRUE), Dir(<<"g","u","i","d","e">>, FALSE), Dir(<<"i","m","a","g","e","s">>, TRUE), Dir(<<".","v","i","t","e","p","r","e","s","s">>, TRUE),
    Dir(<<"p","u","s","h">>, TRUE), Dir(<<"2">>, TRUE),
    File(<<"a",".","m","d">>, <<"-","-","-","\n","t","\n","-","-","-","\n","H","i">>), Unreadable(<<"a",".","m","d">>),
    File(<<"b",".","h","t","m","l">>, <<"<","S","T","Y","L","E",">","x","<","/","s","t","y","l","e",">","\n","\n","\n","\n","H","i">>), File(<<"c",".","p","n","g">>, <<"H","i">>) }

------------------------------------------------------------------------------
(* `collected` of the grouped variant: an Array used as a dictionary.  Its   *)
(* own properties are kept in creation order.                               *)

\* a canonical array index: "0", or digits that do not start with "0"
IsArrayIndex(key) == IsNumber(key) /\ (key[1] = "0" => Len(key) = 1)

DigitVal(c) == CHOOSE n \in 0..9 : <<"0","1","2","3","4","5","6","7","8","9">>[n + 1] = c

RECURSIVE NumVal(_)
NumVal(key) ==
  IF key = <<>> THEN 0
  ELSE 10 * NumVal(SubSeq(key, 1, Len(key) - 1)) + DigitVal(key[Len(key)])

\* names every array inherits from Array.prototype and Object.prototype
\* (a part of the list; each is a function, never an array)
InheritedNames ==
  { <<"p","u","s","h">>, <<"p","o","p">>, <<"m","a","p">>, <<"j","o","i","n">>, <<"k","e","y","s">>, <<"v","a","l","u","e","s">>, <<"e","n","t","r","i","e","s">>, <<"f","i","l","t","e","r">>, <<"f","i","n","d">>,
    <<"s","o","r","t">>, <<"c","o","n","c","a","t">>, <<"i","n","c","l","u","d","e","s">>, <<"c","o","n","s","t","r","u","c","t","o","r">>, <<"t","o","S","t","r","i","n","g">>, <<"v","a","l","u","e","O","f">> }

HasOwn(arr, key) == \E n \in 1..Len(arr) : arr[n].key = key

OwnIndex(arr, key) == CHOOSE n \in 1..Len(arr) : arr[n].key = key

\* what collected[key] evaluates to
PropKind(arr, key) ==
  IF HasOwn(arr, key) THEN "array"
  ELSE IF key = <<"l","e","n","g","t","h">> THEN "number"
  ELSE IF key \in InheritedNames THEN "function"
  ELSE "undefined"

\* if (!collected[g]) collected[g] = []; collected[g].push(x), when it does not throw
PushTo(arr, key, x) ==
  IF HasOwn(arr, key)
  THEN [arr EXCEPT ![OwnIndex(arr, key)].val = Append(@, x)]
  ELSE Append(arr, [key |-> key, val |-> <<x>>])

\* sorts a sequence of array-index keys by their numeric value
RECURSIVE SortByNumVal(_)
SortByNumVal(ks) ==
  IF ks = <<>> THEN <<>>
  ELSE LET m == CHOOSE n \in 1..Len(ks) :
                  \A j \in 1..Len(ks) : NumVal(ks[n]) <= NumVal(ks[j])
       IN  <<ks[m]>> \o SortByNumVal(SubSeq(ks, 1, m - 1) \o SubSeq(ks, m + 1, Len(ks)))

OwnKeys(arr) == [n \in 1..Len(arr) |-> arr[n].key]

\* for (const section in collected): array indices in ascending order, then
\* the other keys in the order they were created
ForInKeys(arr) ==
  SortByNumVal(SelectSeq(OwnKeys(arr), IsArrayIndex))
  \o SelectSeq(OwnKeys(arr), LAMBDA k : ~IsArrayIndex(k))

\* the blocks the loop over the sections appends to finalOutput
RECURSIVE RenderGroups(_, _)
RenderGroups(arr, keys) ==
  IF keys = <<>> THEN <<>>
  ELSE <<GroupHeading(Head(keys))>> \o arr[OwnIndex(arr, Head(keys))].val
       \o RenderGroups(arr, Tail(keys))

------------------------------------------------------------------------------
(* scripts/sync-docs.js, flat variant: crawl and the assembly of finalOutput *)

RootFrame(group) == <<[dir |-> 0, todo |-> Children(0), group |-> group]>>

\* crawl(ROOT), up to the first listing
flat_Start ==
  /\ prog = "syncdocs" /\ variant = "flat"
  /\ status = "init"
  /\ \/ /\ Listable(0)
        /\ status' = "walking"
        /\ stack' = RootFrame(<<>>)
        /\ UNCHANGED failure
     \/ /\ ~Listable(0)
        /\ Thrown("readdir", 0)
  /\ UNCHANGED <<envVars, universalVars, syncVars, viteVars, finVars, visited, outFile>>

\* one round of the loop on a directory: an excluded directory fails the first
\* test, is no file, and the loop goes on
crawlFlat_Directory ==
  /\ prog = "syncdocs" /\ variant = "flat"
  /\ AtDir
  /\ \/ /\ fs[Cur].name \notin EXCLUDE_DIRS_flat
        /\ Listable(Cur)
        /\ stack' = Entered(Cur, <<>>)
        /\ UNCHANGED <<status, failure>>
     \/ /\ fs[Cur].name \notin EXCLUDE_DIRS_flat
        /\ ~Listable(Cur)
        /\ Thrown("readdir", Cur)
     \/ /\ fs[Cur].name \in EXCLUDE_DIRS_flat
        /\ stack' = Advanced
        /\ UNCHANGED <<status, failure>>
  /\ UNCHANGED <<envVars, universalVars, syncVars, viteVars, finVars, visited, outFile>>

\* one round of the loop on a file
crawlFlat_File ==
  /\ prog = "syncdocs" /\ variant = "flat"
  /\ AtFile
  /\ visited' = Append(visited, Cur)
  /\ \/ /\ pathExtname(fs[Cur].name) \in VALID_EXT
        /\ fs[Cur].ok
        /\ collected' = Append(collected,
                               DocSection(fs[Cur].name, cleanContent(fs[Cur].content)))
        /\ stack' = Advanced
        /\ UNCHANGED <<status, failure>>
     \/ /\ pathExtname(fs[Cur].name) \in VALID_EXT
        /\ ~fs[Cur].ok
        /\ Thrown("read", Cur)
        /\ UNCHANGED collected
     \/ /\ pathExtname(fs[Cur].name) \notin VALID_EXT
        /\ stack' = Advanced
        /\ UNCHANGED <<status, failure, collected>>
  /\ UNCHANGED <<envVars, universalVars, viteVars, finVars, outFile,
                 variant, finalOutput, flatRun>>

crawlFlat_Return ==
  /\ prog = "syncdocs" /\ variant = "flat"
  /\ status = "walking"
  /\ Top.todo = <<>>
  /\ stack' = SubSeq(stack, 1, Len(stack) - 1)
  /\ status' = IF Len(stack) = 1 THEN "walked" ELSE "walking"
  /\ UNCHANGED <<envVars, universalVars, syncVars, viteVars, finVars, failure, visited, outFile>>

\* finalOutput = [header, ...collected].join("\n\n"); fs.writeFileSync(OUTPUT, ...)
flat_Write ==
  /\ prog = "syncdocs" /\ variant = "flat"
  /\ status = "walked"
  /\ finalOutput' = <<Header>> \o collected
  /\ \/ /\ outFile' = [written |-> TRUE, sections |-> finalOutput']
        /\ status' = "written"
        /\ UNCHANGED failure
     \/ /\ status' = "aborted"
        /\ failure' = [op |-> "write", at |-> 0]
        /\ UNCHANGED outFile
  /\ UNCHANGED <<envVars, universalVars, viteVars, finVars, stack, visited,
                 variant, collected, flatRun>>

------------------------------------------------------------------------------
(* scripts/sync-docs.js, grouped variant *)

\* the statements of the grouped script follow the last statement of the flat
\* one: they run, on the same tree, once the flat output is written
grouped_Begin ==
  /\ prog = "syncdocs" /\ variant = "flat"
  /\ status = "written"
  /\ flatRun' = [status |-> status, failure |-> failure, visited |-> visited,
                 collected |-> collected, finalOutput |-> finalOutput]
  /\ variant' = "grouped"
  /\ collected' = <<>>
  /\ finalOutput' = <<>>
  /\ status' = "init"
  /\ failure' = NoFailure
  /\ stack' = <<>>
  /\ visited' = <<>>
  /\ outFile' = NotWritten
  /\ UNCHANGED <<envVars, universalVars, viteVars, finVars>>

\* crawl(ROOT), with groupName = "General", up to the first listing
grouped_Start ==
  /\ prog = "syncdocs" /\ variant = "grouped"
  /\ status = "init"
  /\ \/ /\ Listable(0)
        /\ status' = "walking"
        /\ stack' = RootFrame(<<"G","e","n","e","r","a","l">>)
        /\ UNCHANGED failure
     \/ /\ ~Listable(0)
        /\ Thrown("readdir", 0)
  /\ UNCHANGED <<envVars, universalVars, syncVars, viteVars, finVars, visited, outFile>>

\* one round of the loop on a directory: crawl(fullPath, item.name) or continue
crawlGrouped_Directory ==
  /\ prog = "syncdocs" /\ variant = "grouped"
  /\ AtDir
  /\ \/ /\ fs[Cur].name \notin EXCLUDE_DIRS_grouped
        /\ Listable(Cur)
        /\ stack' = Entered(Cur, fs[Cur].name)
        /\ UNCHANGED <<status, failure>>
     \/ /\ fs[Cur].name \notin EXCLUDE_DIRS_grouped
        /\ ~Listable(Cur)
        /\ Thrown("readdir", Cur)
     \/ /\ fs[Cur].name \in EXCLUDE_DIRS_grouped
        /\ stack' = Advanced
        /\ UNCHANGED <<status, failure>>
  /\ UNCHANGED <<envVars, universalVars, syncVars, viteVars, finVars, visited, outFile>>

\* one round of the loop on a file: the section goes to collected[groupName]
crawlGrouped_File ==
  /\ prog = "syncdocs" /\ variant = "grouped"
  /\ AtFile
  /\ visited' = Append(visited, Cur)
  /\ \/ /\ pathExtname(fs[Cur].name) \in VALID_EXT
        /\ fs[Cur].ok
        /\ PropKind(collected, Top.group) \in {"array", "undefined"}
        /\ collected' = PushTo(collected, Top.group,
                               DocSection(fs[Cur].name, cleanContent(fs[Cur].content)))
        /\ stack' = Advanced
        /\ UNCHANGED <<status, failure>>
     \/ /\ pathExtname(fs[Cur].name) \in VALID_EXT
        /\ fs[Cur].ok
        /\ PropKind(collected, Top.group) \in {"number", "function"}
        /\ Thrown("TypeError", Cur)
        /\ UNCHANGED collected
     \/ /\ pathExtname(fs[Cur].name) \in VALID_EXT
        /\ ~fs[Cur].ok
        /\ Thrown("read", Cur)
        /\ UNCHANGED collected
     \/ /\ pathExtname(fs[Cur].name) \notin VALID_EXT
        /\ stack' = Advanced
        /\ UNCHANGED <<status, failure, collected>>
  /\ UNCHANGED <<envVars, universalVars, viteVars, finVars, outFile,
                 variant, finalOutput, flatRun>>

crawlGrouped_Return ==
  /\ prog = "syncdocs" /\ variant = "grouped"
  /\ status = "walking"
  /\ Top.todo = <<>>
  /\ stack' = SubSeq(stack, 1, Len(stack) - 1)
  /\ status' = IF Len(stack) = 1 THEN "walked" ELSE "walking"
  /\ UNCHANGED <<envVars, universalVars, syncVars, viteVars, finVars, failure, visited, outFile>>

\* the header, then for every section `## ${SECTION}` and its files; the write
grouped_Write ==
  /\ prog = "syncdocs" /\ variant = "grouped"
  /\ status = "walked"
  /\ finalOutput' = <<Header>> \o RenderGroups(collected, ForInKeys(collected))
  /\ \/ /\ outFile' = [written |-> TRUE, sections |-> finalOutput']
        /\ status' = "written"
        /\ UNCHANGED failure
     \/ /\ status' = "aborted"
        /\ failure' = [op |-> "write", at |-> 0]
        /\ UNCHANGED outFile
  /\ UNCHANGED <<envVars, universalVars, viteVars, finVars, stack, visited,
                 variant, collected, flatRun>>

SyncDocsInit ==
  /\ prog = "syncdocs"
  /\ TreeFrom(SyncDocsMenu)
  /\ rootOk \in BOOLEAN
  /\ WalkIdle
  /\ UniversalIdle
  /\ SyncIdle
  /\ ViteIdle
  /\ FinIdle

SyncDocsNext ==
  \/ flat_Start
  \/ crawlFlat_Directory
  \/ crawlFlat_File
  \/ crawlFlat_Return
  \/ flat_Write
  \/ grouped_Begin
  \/ grouped_Start
  \/ crawlGrouped_Directory
  \/ crawlGrouped_File
  \/ crawlGrouped_Return
  \/ grouped_Write

(* The walkers of the universal compiler and of the two sync-docs scripts *)
Init == UniversalInit \/ SyncDocsInit

Next == UniversalNext \/ SyncDocsNext

Spec == Init /\ [][Next]_vars

------------------------------------------------------------------------------
(* sync-vite-docs.js (src/unnamed/part_000): configuration and functions *)

\* path.join(path.resolve(".."), "docs"), for the repo root the script names
DOCS_DIR == <<"/","U","s","e","r","s","/","h","o","m","e","/","S","i","t","e","s","/","d","o","c","s","/","v","i","t","e","/","v","i","t","e","-","d","o","c","s","/","d","o","c","s">>

SNIPPET_EXTENSIONS ==
  { <<".","j","s">>, <<".","j","s","x">>, <<".","t","s">>, <<".","t","s","x">>, <<".","j","s","o","n">>, <<".","h","t","m","l">>, <<".","c","s","s">>,
    <<".","v","i","t","e",".","c","o","n","f","i","g",".","j","s">>, <<".","v","i","t","e",".","c","o","n","f","i","g",".","t","s">> }

fullPathOf(i) == pathJoin(DOCS_DIR, relPath(i))

pathDirname(p) ==
  LET ks == {k \in 1..Len(p) : p[k] = "/"}
  IN  IF ks = {} THEN <<".">> ELSE SubSeq(p, 1, MaxOf(ks) - 1)

\* the segments of a path with "." dropped and ".." applied
RECURSIVE Normalized(_, _)
Normalized(segs, acc) ==
  IF segs = <<>> THEN acc
  ELSE IF Head(segs) \in {<<".">>, <<>>} THEN Normalized(Tail(segs), acc)
  ELSE IF Head(segs) = <<".",".">>
       THEN Normalized(Tail(segs), IF acc = <<>> THEN acc ELSE SubSeq(acc, 1, Len(acc) - 1))
  ELSE Normalized(Tail(segs), Append(acc, Head(segs)))

\* path.resolve(dir, rel) for an absolute dir
pathResolve(dir, rel) ==
  LET joined == IF startsWith(rel, Slash) THEN rel ELSE pathJoin(dir, rel)
  IN  Slash \o join(Normalized(split(joined, "/"), <<>>), Slash)

\* the entry of the tree with this absolute path, or 0: fs.existsSync
EntryAt(abs) ==
  LET found == {i \in 1..Len(fs) : fullPathOf(i) = abs}
  IN  IF found = {} THEN 0 ELSE CHOOSE i \in found : TRUE

\* const match = content.match(/^---([\s\S]*?)---/)
FrontmatterEnd(content) ==
  IF startsWith(content, <<"-","-","-">>) THEN IndexOfFrom(content, <<"-","-","-">>, 4) ELSE 0

EmptyMeta == Parsed("emptyobject")

\* extractFrontmatter: { body, meta }
extractFrontmatter(content) ==
  LET k == FrontmatterEnd(content)
  IN  IF k = 0 THEN [body |-> content, meta |-> EmptyMeta]
      ELSE IF YamlLoad(SubSeq(content, 4, k - 1)).kind = "error"
           THEN [body |-> From(content, k + 3), meta |-> EmptyMeta]
      ELSE [body |-> From(content, k + 3), meta |-> YamlLoad(SubSeq(content, 4, k - 1))]

\* /import .*? from .*/g -> ""
RECURSIVE RemoveImports(_)
RemoveImports(s) ==
  LET starts == {i \in 1..Len(s) :
                   /\ MatchAt(s, i, <<"i","m","p","o","r","t"," ">>)
                   /\ IndexOfFrom(SubSeq(s, 1, LineEnd(s, i)), <<" ","f","r","o","m"," ">>, i + 7) # 0}
  IN  IF starts = {} THEN s
      ELSE SubSeq(s, 1, MinOf(starts) - 1)
           \o RemoveImports(From(s, LineEnd(s, MinOf(starts)) + 1))

\* /export (const|default) .*/g -> ""
RECURSIVE RemoveExports(_)
RemoveExports(s) ==
  LET starts == {i \in 1..Len(s) :
                   MatchAt(s, i, <<"e","x","p","o","r","t"," ","c","o","n","s","t"," ">>) \/ MatchAt(s, i, <<"e","x","p","o","r","t"," ","d","e","f","a","u","l","t"," ">>)}
  IN  IF starts = {} THEN s
      ELSE SubSeq(s, 1, MinOf(starts) - 1)
           \o RemoveExports(From(s, LineEnd(s, MinOf(starts)) + 1))

\* the alternatives of the fence regex, in its order
FenceLanguages ==
  <<<<"t","s","x">>, <<"j","s","x">>, <<"t","s">>, <<"j","s">>, <<"j","a","v","a","s","c","r","i","p","t">>, <<"t","y","p","e","s","c","r","i","p","t">>, <<"h","t","m","l">>, <<"c","s","s">>, <<"b","a","s","h">>, <<"s","h">>>>

\* /```(tsx|jsx|ts|js|javascript|typescript|html|css|bash|sh)/g -> "```"
RECURSIVE NormalizeFences(_)
NormalizeFences(s) ==
  LET starts == {i \in 1..Len(s) :
                   /\ MatchAt(s, i, <<Backtick,Backtick,Backtick>>)
                   /\ \E n \in 1..Len(FenceLanguages) : MatchAt(s, i + 3, FenceLanguages[n])}
  IN  IF starts = {} THEN s
      ELSE LET i == MinOf(starts)
               n == MinOf({m \in 1..Len(FenceLanguages) : MatchAt(s, i + 3, FenceLanguages[m])})
           IN  SubSeq(s, 1, i + 2)
               \o NormalizeFences(From(s, i + 3 + Len(FenceLanguages[n])))

\* /<.*?>/g with the callback that keeps <code...> and <pre...> tags
RECURSIVE StripHtmlTags(_)
StripHtmlTags(s) ==
  LET starts == {i \in 1..Len(s) :
                   /\ s[i] = "<"
                   /\ IndexOfFrom(SubSeq(s, 1, LineEnd(s, i)), <<">">>, i + 1) # 0}
  IN  IF starts = {} THEN s
      ELSE LET i   == MinOf(starts)
               k   == IndexOfFrom(s, <<">">>, i + 1)
               tag == SubSeq(s, i, k)
               t   == toLowerCase(tag)
           IN  SubSeq(s, 1, i - 1)
               \o (IF startsWith(t, <<"<","c","o","d","e">>) \/ startsWith(t, <<"<","p","r","e">>) THEN tag ELSE <<>>)
               \o StripHtmlTags(From(s, k + 1))

\* the "core cleanup" of walk
coreCleanup(body) ==
  StripHtmlTags(
    NormalizeFences(
      RemoveDelimited(
        RemoveExports(RemoveImports(body)),
        <<"{","/","*">>, <<"*","/","}">>)))

Quotes == {"'", "\""}

\* content.match(/['"].*?(snippets|examples).*?['"]/g) || []
RECURSIVE SnippetMatches(_)
SnippetMatches(s) ==
  LET WordAt(i) ==
        LET line == SubSeq(s, 1, LineEnd(s, i))
            ms == {m \in {IndexOfFrom(line, <<"s","n","i","p","p","e","t","s">>, i + 1),
                          IndexOfFrom(line, <<"e","x","a","m","p","l","e","s">>, i + 1)} : m # 0}
        IN  IF ms = {} THEN 0 ELSE MinOf(ms)
      CloseAt(i) ==
        IF WordAt(i) = 0 THEN 0
        ELSE LET qs == {q \in (WordAt(i) + 8)..LineEnd(s, i) : s[q] \in Quotes}
             IN  IF qs = {} THEN 0 ELSE MinOf(qs)
      starts == {i \in 1..Len(s) : s[i] \in Quotes /\ CloseAt(i) # 0}
  IN  IF starts = {} THEN <<>>
      ELSE <<SubSeq(s, MinOf(starts), CloseAt(MinOf(starts)))>>
           \o SnippetMatches(From(s, CloseAt(MinOf(starts)) + 1))

\* match.replace(/['"]/g, "")
WithoutQuotes(s) == SelectSeq(s, LAMBDA c : c \notin Quotes)

\* ext.replace(".", ""): the first "." is dropped
WithoutFirstDot(ext) ==
  LET k == IndexOfFrom(ext, <<".">>, 1)
  IN  IF k = 0 THEN ext ELSE SubSeq(ext, 1, k - 1) \o From(ext, k + 1)

\* inlineSnippetsIntoDoc: the loop over the matches
RECURSIVE InlineMatches(_, _, _)
InlineMatches(content, matches, fullPath) ==
  IF matches = <<>> THEN content
  ELSE LET abs == pathResolve(pathDirname(fullPath), WithoutQuotes(Head(matches)))
           e   == EntryAt(abs)
           ext == pathExtname(abs)
           next == IF e = 0 \/ ext \notin SNIPPET_EXTENSIONS \/ ~fs[e].ok
                      \/ fs[e].kind # "file"
                   THEN content
                   ELSE content \o <<"\n","\n",Backtick,Backtick,Backtick>> \o WithoutFirstDot(ext) \o <<"\n">>
                        \o trim(fs[e].content) \o <<"\n",Backtick,Backtick,Backtick,"\n">>
       IN  InlineMatches(next, Tail(matches), fullPath)

inlineSnippetsIntoDoc(content, fullPath) ==
  InlineMatches(content, SnippetMatches(content), fullPath)

\* shouldIncludeFile
shouldIncludeFile(fullPath) ==
  LET lower == toLowerCase(fullPath)
  IN  IF ~includeBlog
      THEN ~( \/ includes(lower, <<"/","b","l","o","g","/">>)
              \/ includes(lower, <<"/","c","h","a","n","g","e","s","/">>)
              \/ endsWith(lower, <<"r","e","l","e","a","s","e","s",".","m","d">>)
              \/ endsWith(lower, <<"r","e","l","e","a","s","e","-","n","o","t","e","s",".","m","d">>) )
      ELSE TRUE

\* entry.name.endsWith(".md") || ... ".mdx" || ... ".markdown"
IsMarkdownName(name) ==
  endsWith(name, <<".","m","d">>) \/ endsWith(name, <<".","m","d","x">>) \/ endsWith(name, <<".","m","a","r","k","d","o","w","n">>)

------------------------------------------------------------------------------
(* sync-vite-docs.js: finalizeOutput *)

\* where a match of /(#+ .+)\n+\1/ that starts at position i ends, or 0
HeadingMatchEnd(s, i) ==
  IF s[i] # "#" THEN 0
  ELSE LET h == RunEnd(s, i, "#")
           e == LineEnd(s, h + 2)
           n == RunEnd(s, e + 1, "\n")
       IN  IF /\ h + 2 <= Len(s)
              /\ s[h + 1] = " "
              /\ e >= h + 2
              /\ e + 1 <= Len(s)
              /\ MatchAt(s, n + 1, SubSeq(s, i, e))
           THEN n + (e - i + 1)
           ELSE 0

\* .replace(/(#+ .+)\n+\1/g, "$1")
RECURSIVE DedupeHeadings(_)
DedupeHeadings(s) ==
  LET starts == {i \in 1..Len(s) : HeadingMatchEnd(s, i) # 0}
  IN  IF starts = {} THEN s
      ELSE LET i == MinOf(starts)
               e == LineEnd(s, i)
           IN  SubSeq(s, 1, e) \o DedupeHeadings(From(s, HeadingMatchEnd(s, i) + 1))

\* .replace(/\n---\n+/g, "\n\n---\n\n")
RECURSIVE NormalizeSeparators(_)
NormalizeSeparators(s) ==
  LET i == IndexOfFrom(s, <<"\n","-","-","-","\n">>, 1)
  IN  IF i = 0 THEN s
      ELSE SubSeq(s, 1, i - 1) \o <<"\n","\n","-","-","-","\n","\n">>
           \o NormalizeSeparators(From(s, RunEnd(s, i + 4, "\n") + 1))

\* .split("\n").map((line) => line.trimEnd()).join("\n")
TrimLines(s) ==
  LET lines == split(s, "\n")
  IN  join([n \in 1..Len(lines) |-> trimEnd(lines[n])], <<"\n">>)

finalizeOutput(t) ==
  trim(TrimLines(NormalizeSeparators(CollapseNewlines(DedupeHeadings(t))))) \o <<"\n">>

------------------------------------------------------------------------------
(* sync-vite-docs.js: walk and the top-level statements *)

\* the inputs of the Vite compiler
ViteMenu ==
  { Dir(<<"g","u","i","d","e">>, TRUE), Dir(<<"g","u","i","d","e">>, FALSE), Dir(<<"b","l","o","g">>, TRUE), Dir(<<".","v","i","t","e","p","r","e","s","s">>, TRUE),
    File(<<"i","n","t","r","o",".","m","d">>, <<"-","-","-","\n","t","i","t","l","e",":"," ","I","n","t","r","o","\n","-","-","-","\n","#"," ","H","e","l","l","o">>),
    File(<<"i","n","t","r","o",".","m","d">>, <<"-","-","-","\n","-","-","-","\n","H","i">>),
    File(<<"i","n","t","r","o",".","m","d">>, <<"-","-","-","\n","[","\n","-","-","-","\n","H","i">>),
    File(<<"i","n","t","r","o",".","m","d">>, <<>>),
    Unreadable(<<"i","n","t","r","o",".","m","d">>),
    File(<<"p","o","s","t",".","m","d">>, <<"H","i">>),
    File(<<"r","e","l","e","a","s","e","s",".","m","d">>, <<"H","i">>),
    File(<<"p","r","e","-","r","e","l","e","a","s","e","s",".","m","d">>, <<"H","i">>),
    File(<<"n","o","t","e","s",".","t","x","t">>, <<"H","i">>),
    File(<<"s",".","m","d","x">>, <<"'",".","/","e","x","a","m","p","l","e","s",".","j","s","'","\n","<","b",">","x","<","/","b",">">>),
    File(<<"e","x","a","m","p","l","e","s",".","j","s">>, <<" ","x"," ">>) }

DocHeader == <<"#"," ","V","i","t","e"," ","D","o","c","u","m","e","n","t","a","t","i","o","n","\n","\n">>

\* meta.title throws a TypeError when yaml.load returned undefined or null
TitleThrows(meta) == meta.kind \in {"undefined", "null"}

\* meta.title || baseTitle
TitleOf(meta, fullPath) ==
  LET baseTitle == pathBasenameExt(fullPath, pathExtname(fullPath))
      ns == IF meta.kind = "map"
            THEN {n \in 1..Len(meta.pairs) : meta.pairs[n].key = <<"t","i","t","l","e">>}
            ELSE {}
  IN  IF ns = {} THEN baseTitle
      ELSE LET v == meta.pairs[MaxOf(ns)].val
           IN  IF v.val = <<>> \/ (v.kind = "number" /\ v.val = <<"0">>) THEN baseTitle
               ELSE v.val

\* the text of a file after the core cleanup and the inlined snippets
CleanedContent(i) ==
  inlineSnippetsIntoDoc(coreCleanup(extractFrontmatter(fs[i].content).body), fullPathOf(i))

\* `\n---\n# ${title}\n\n${content.trim()}\n`
SectionBlock(title, content) == <<"\n","-","-","-","\n","#"," ">> \o title \o <<"\n","\n">> \o trim(content) \o <<"\n">>

\* walk(DOCS_DIR), up to the first listing
vite_Start ==
  /\ prog = "vite"
  /\ status = "init"
  /\ \/ /\ Listable(0)
        /\ status' = "walking"
        /\ stack' = RootFrame(<<>>)
        /\ UNCHANGED failure
     \/ /\ ~Listable(0)
        /\ Thrown("readdir", 0)
  /\ UNCHANGED <<envVars, universalVars, syncVars, viteVars, finVars, visited, outFile>>

\* one round of the loop on a directory
walk_Directory ==
  /\ prog = "vite"
  /\ AtDir
  /\ \/ /\ ~startsWith(fs[Cur].name, <<".">>)
        /\ Listable(Cur)
        /\ stack' = Entered(Cur, <<>>)
        /\ UNCHANGED <<status, failure>>
     \/ /\ ~startsWith(fs[Cur].name, <<".">>)
        /\ ~Listable(Cur)
        /\ Thrown("readdir", Cur)
     \/ /\ startsWith(fs[Cur].name, <<".">>)
        /\ stack' = Advanced
        /\ UNCHANGED <<status, failure>>
  /\ UNCHANGED <<envVars, universalVars, syncVars, viteVars, finVars, visited, outFile>>

\* one round of the loop on a file
walk_File ==
  /\ prog = "vite"
  /\ AtFile
  /\ visited' = Append(visited, Cur)
  /\ stack' = Advanced
  /\ LET fullPath == fullPathOf(Cur)
         meta     == extractFrontmatter(fs[Cur].content).meta
     IN  \/ /\ ~IsMarkdownName(fs[Cur].name)
            /\ UNCHANGED <<viteOutput, fileCount, sections, warnings>>
         \/ /\ IsMarkdownName(fs[Cur].name)
            /\ ~shouldIncludeFile(fullPath)
            /\ UNCHANGED <<viteOutput, fileCount, sections, warnings>>
         \/ /\ IsMarkdownName(fs[Cur].name)
            /\ shouldIncludeFile(fullPath)
            /\ ~fs[Cur].ok
            /\ warnings' = Append(warnings, Cur)
            /\ UNCHANGED <<viteOutput, fileCount, sections>>
         \/ /\ IsMarkdownName(fs[Cur].name)
            /\ shouldIncludeFile(fullPath)
            /\ fs[Cur].ok
            /\ TitleThrows(meta)
            /\ warnings' = Append(warnings, Cur)
            /\ UNCHANGED <<viteOutput, fileCount, sections>>
         \/ /\ IsMarkdownName(fs[Cur].name)
            /\ shouldIncludeFile(fullPath)
            /\ fs[Cur].ok
            /\ ~TitleThrows(meta)
            /\ viteOutput' = viteOutput
                 \o SectionBlock(TitleOf(meta, fullPath), CleanedContent(Cur))
            /\ fileCount' = fileCount + 1
            /\ sections' = Append(sections,
                 [file |-> Cur, title |-> TitleOf(meta, fullPath),
                  body |-> trim(CleanedContent(Cur))])
            /\ UNCHANGED warnings
  /\ UNCHANGED <<envVars, universalVars, syncVars, finVars, status, failure, outFile,
                 includeBlog>>

walk_Return ==
  /\ prog = "vite"
  /\ status = "walking"
  /\ Top.todo = <<>>
  /\ stack' = SubSeq(stack, 1, Len(stack) - 1)
  /\ status' = IF Len(stack) = 1 THEN "walked" ELSE "walking"
  /\ UNCHANGED <<envVars, universalVars, syncVars, viteVars, finVars, failure, visited, outFile>>

\* output = finalizeOutput(output); fs.writeFileSync(OUTPUT_FILE, output, "utf8")
vite_Write ==
  /\ prog = "vite"
  /\ status = "walked"
  /\ viteOutput' = finalizeOutput(viteOutput)
  /\ \/ /\ outFile' = [written |-> TRUE, sections |-> viteOutput']
        /\ status' = "written"
        /\ UNCHANGED failure
     \/ /\ status' = "aborted"
        /\ failure' = [op |-> "write", at |-> 0]
        /\ UNCHANGED outFile
  /\ UNCHANGED <<envVars, universalVars, syncVars, finVars, stack, visited,
                 includeBlog, fileCount, sections, warnings>>

ViteInit ==
  /\ prog = "vite"
  /\ TreeFrom(ViteMenu)
  /\ rootOk \in BOOLEAN
  /\ WalkIdle
  /\ UniversalIdle
  /\ SyncIdle
  /\ FinIdle
  /\ includeBlog \in BOOLEAN
  /\ viteOutput = DocHeader
  /\ fileCount = 0
  /\ sections = <<>>
  /\ warnings = <<>>

ViteNext ==
  \/ vite_Start
  \/ walk_Directory
  \/ walk_File
  \/ walk_Return
  \/ vite_Write

SpecVite == ViteInit /\ [][ViteNext]_vars

------------------------------------------------------------------------------
(* finalizeOutput applied to a text, and again to its own result *)

MaxLines == 4

MaxPasses == 2

FinalizeLines == { <<>>, <<" ">>, <<"-","-","-">>, <<"#"," ","a">>, <<"a">> }

RECURSIVE TextsOfLines(_)
TextsOfLines(n) ==
  IF n = 1 THEN FinalizeLines
  ELSE {t \o <<"\n">> \o l : t \in TextsOfLines(n - 1), l \in FinalizeLines}

FinalizeInputs == UNION {TextsOfLines(n) : n \in 1..MaxLines}

finalize_Pass ==
  /\ prog = "finalize"
  /\ Len(passes) < MaxPasses
  /\ passes' = Append(passes, finalizeOutput(IF passes = <<>> THEN inputText
                                             ELSE passes[Len(passes)]))
  /\ UNCHANGED <<envVars, walkVars, universalVars, syncVars, viteVars, inputText>>

FinalizeInit ==
  /\ prog = "finalize"
  /\ fs = <<>>
  /\ rootOk = TRUE
  /\ WalkIdle
  /\ UniversalIdle
  /\ SyncIdle
  /\ ViteIdle
  /\ inputText \in FinalizeInputs
  /\ passes = <<>>

FinalizeNext == finalize_Pass

SpecFinalize == FinalizeInit /\ [][FinalizeNext]_vars

------------------------------------------------------------------------------
(* Properties of the walkers *)

InSeq(x, s) == \E n \in 1..Len(s) : s[n] = x

IsPrefix(s, t) == Len(s) <= Len(t) /\ SubSeq(t, 1, Len(s)) = s

CountOf(x, s) == Cardinality({n \in 1..Len(s) : s[n] = x})

\* the file entries that have an ancestor directory named in `excl`
UnderExcluded(excl) == {f \in Files : \E a \in Ancestors(f) : fs[a].name \in excl}

\* the file entries of the tree under directory d, in pre-order and listing
\* order, the subtrees of the directories named in `excl` left out
RECURSIVE PreOrderOf(_, _)
PreOrderOf(entries, excl) ==
  IF entries = <<>> THEN <<>>
  ELSE LET e == Head(entries)
       IN  (IF fs[e].kind = "file" THEN <<e>>
            ELSE IF fs[e].name \in excl THEN <<>>
            ELSE PreOrderOf(Children(e), excl))
           \o PreOrderOf(Tail(entries), excl)

PreOrderFiles(excl) == PreOrderOf(Children(0), excl)

\* the names of the files of `seq` a sync-docs script turns into a section
SectionNames(seq) ==
  LET kept == SelectSeq(seq, LAMBDA f : pathExtname(fs[f].name) \in VALID_EXT /\ fs[f].ok)
  IN  [n \in 1..Len(kept) |-> fs[kept[n]].name]

Titles(blocks) ==
  LET secs == SelectSeq(blocks, LAMBDA b : b.kind = "section")
  IN  [n \in 1..Len(secs) |-> secs[n].title]

RECURSIVE Flatten(_)
Flatten(arr) == IF arr = <<>> THEN <<>> ELSE Head(arr).val \o Flatten(Tail(arr))

SameBag(s, t) ==
  /\ Len(s) = Len(t)
  /\ \A n \in 1..Len(s) : CountOf(s[n], s) = CountOf(s[n], t)

\* C1 for one finished or running sync-docs walk
NoneUnderExcluded(excl, seen, secs) ==
  /\ \A f \in UnderExcluded(excl) : ~InSeq(f, seen)
  /\ \A n \in 1..Len(secs) : CountOf(secs[n], secs) <= CountOf(secs[n], SectionNames(seen))

\* C1: in every walker, a file with an ancestor directory (below the root) whose
\* name is in the walker's excluded set is never visited: it has no section in
\* the output and, in crawlDir, no log entry and no counter increment, whatever
\* its extension.
C1_ExcludedSubtreeNeverVisited ==
  /\ prog = "universal" =>
       /\ \A f \in UnderExcluded(excludeDirs) :
            /\ ~InSeq(f, visited)
            /\ \A n \in 1..Len(output) : output[n].file # relPath(f)
            /\ \A n \in 1..Len(logEntries) : logEntries[n].path # relPath(f)
       /\ processed + skipped = Len(visited)
  /\ (prog = "syncdocs" /\ variant = "flat") =>
       NoneUnderExcluded(EXCLUDE_DIRS_flat, visited, Titles(collected))
  /\ (prog = "syncdocs" /\ variant = "grouped") =>
       /\ NoneUnderExcluded(EXCLUDE_DIRS_flat, flatRun.visited, Titles(flatRun.collected))
       /\ NoneUnderExcluded(EXCLUDE_DIRS_grouped, visited, Titles(Flatten(collected)))
       /\ outFile.written =>
            NoneUnderExcluded(EXCLUDE_DIRS_grouped, visited, Titles(outFile.sections))

\* a file of an included extension, readable and not empty, lies under an
\* excluded directory; both sync-docs scripts have written their output, with
\* a section for another file
C1_Witness ==
  /\ prog = "syncdocs" /\ variant = "grouped"
  /\ status = "written" /\ flatRun.status = "written"
  /\ \E f \in UnderExcluded(EXCLUDE_DIRS_flat) :
       pathExtname(fs[f].name) \in VALID_EXT /\ fs[f].ok /\ fs[f].content # <<>>
  /\ Titles(outFile.sections) # <<>>
  /\ Titles(flatRun.finalOutput) # <<>>

\* C2: in crawlDir a failed read of an included file is logged as skipped with
\* no section, every entry is still visited and the output written; only a
\* failure to list the root directory or to write the output ends the run
\* without output.
C2_OnlyRootOrWriteFailureAborts ==
  prog = "universal" =>
    /\ \A n \in 1..Len(visited) :
         (~fs[visited[n]].ok
            /\ toLowerCase(pathExtname(fs[visited[n]].name)) \in includeExts) =>
           /\ logEntries[n] = LogLine("Skipped (empty or invalid)", relPath(visited[n]))
           /\ \A k \in 1..Len(output) : output[k].file # relPath(visited[n])
    /\ status = "written" =>
         /\ visited = PreOrderFiles(excludeDirs)
         /\ outFile = [written |-> TRUE, sections |-> output]
    /\ status = "aborted" =>
         failure \in {[op |-> "readdir", at |-> 0], [op |-> "write", at |-> 0]}

\* C4: in every state of a run of crawlDir each file entry visited so far has
\* one log entry and one increment of processed or skipped: processed + skipped
\* is the number of log entries, processed the number of sections, and the log
\* entries follow the order of the visit, which is pre-order in listing order.
C4_CountersMatchLog ==
  prog = "universal" =>
    /\ Len(logEntries) = Len(visited)
    /\ processed + skipped = Len(logEntries)
    /\ processed = Len(output)
    /\ processed = Cardinality({n \in 1..Len(logEntries) : logEntries[n].tag = "Processed"})
    /\ \A n \in 1..Len(visited) : logEntries[n].path = relPath(visited[n])
    /\ IsPrefix(visited, PreOrderFiles(excludeDirs))
    /\ status \in {"walked", "written"} => visited = PreOrderFiles(excludeDirs)
    /\ logFile.written =>
         /\ logFile.lines = logEntries
         /\ logFile.processed + logFile.skipped = Len(logFile.lines)

\* crawlDir has finished a tree with a file in a subdirectory, after a file
\* that was processed and a file that was skipped
C4_Witness ==
  /\ prog = "universal"
  /\ status = "written"
  /\ processed >= 1 /\ skipped >= 1
  /\ \E n \in 1..Len(visited) : fs[visited[n]].parent # 0
  /\ \E n \in 2..Len(visited) : visited[n] < visited[n - 1]

\* C7: the flat and the grouped aggregation of the same processed files both
\* complete and emit the same multiset of section titles.
C7_FlatAndGroupedSameTitles ==
  ( /\ prog = "syncdocs" /\ variant = "grouped"
    /\ flatRun.status = "written"
    /\ status \in {"written", "aborted"}
    /\ failure.op \notin {"readdir", "read", "write"}
    /\ \A i \in 1..Len(fs) : fs[i].name \notin EXCLUDE_DIRS_grouped \ EXCLUDE_DIRS_flat )
  => /\ status = "written"
     /\ SameBag(Titles(flatRun.finalOutput), Titles(finalOutput))

\* the groups of the files of `seen` that became sections, in the order in
\* which each first received a file (root-level files are in "General")
GroupOf(f) == IF fs[f].parent = 0 THEN <<"G","e","n","e","r","a","l">> ELSE fs[fs[f].parent].name

RECURSIVE FirstSeen(_, _)
FirstSeen(seq, acc) ==
  IF seq = <<>> THEN acc
  ELSE FirstSeen(Tail(seq), IF InSeq(Head(seq), acc) THEN acc ELSE Append(acc, Head(seq)))

Kept(seen) ==
  SelectSeq(seen, LAMBDA f : pathExtname(fs[f].name) \in VALID_EXT /\ fs[f].ok)

GroupsInOrder(seen) == FirstSeen([n \in 1..Len(Kept(seen)) |-> GroupOf(Kept(seen)[n])], <<>>)

RECURSIVE ExpectedGrouped(_, _)
ExpectedGrouped(groups, seen) ==
  IF groups = <<>> THEN <<>>
  ELSE LET mine == SelectSeq(Kept(seen), LAMBDA f : GroupOf(f) = Head(groups))
       IN  <<GroupHeading(Head(groups))>>
           \o [n \in 1..Len(mine) |->
                 DocSection(fs[mine[n]].name, cleanContent(fs[mine[n]].content))]
           \o ExpectedGrouped(Tail(groups), seen)

\* C8: in the grouped output the group headings are in the order in which each
\* group first received a file, root-level files are in the group General, and
\* the sections of a group are in the order of the visit.
C8_GroupsInFirstSeenOrder ==
  (prog = "syncdocs" /\ variant = "grouped" /\ status = "written") =>
    outFile.sections = <<Header>> \o ExpectedGrouped(GroupsInOrder(visited), visited)

------------------------------------------------------------------------------
(* Properties of sync-vite-docs.js *)

\* the sections walk has appended for the file entry f
SectionsOf(f) == {k \in 1..Len(sections) : sections[k].file = f}

\* a Markdown file walk has read: included by the filter and readable
ReadByWalk(f) ==
  /\ IsMarkdownName(fs[f].name)
  /\ shouldIncludeFile(fullPathOf(f))
  /\ fs[f].ok

\* the body of the section of f when the text after the frontmatter block,
\* which ends at position k + 2, is cleaned
BodyWithoutBlock(f, k) ==
  trim(inlineSnippetsIntoDoc(coreCleanup(From(fs[f].content, k + 3)), fullPathOf(f)))

BaseName(f) == pathBasenameExt(fs[f].name, pathExtname(fs[f].name))

\* C3: every Markdown file walk has read that begins with a frontmatter block
\* has exactly one section, whose body is the text with the block removed,
\* whatever the block parses to; when the block declares no title the title
\* of the section is the base name of the file without its extension.
C3_FrontmatterNeverDropsFile ==
  prog = "vite" =>
    \A n \in 1..Len(visited) :
      LET f == visited[n]
          k == FrontmatterEnd(fs[f].content)
      IN  (ReadByWalk(f) /\ k # 0) =>
            /\ Cardinality(SectionsOf(f)) = 1
            /\ \A s \in SectionsOf(f) :
                 /\ sections[s].body = BodyWithoutBlock(f, k)
                 /\ ~includes(SubSeq(fs[f].content, 4, k - 1), <<"t","i","t","l","e",":">>) =>
                      sections[s].title = BaseName(f)

\* C5: finalizeOutput applied to its own result returns that result.
C5_FinalizeIdempotent ==
  (prog = "finalize" /\ Len(passes) = 2) => passes[2] = passes[1]

\* line n of `lines` is a '---' line with exactly one blank line before it and
\* exactly one after it
OneBlankLineAround(lines, n) ==
  /\ n >= 3
  /\ lines[n - 1] = <<>>
  /\ lines[n - 2] # <<>>
  /\ n + 2 <= Len(lines)
  /\ lines[n + 1] = <<>>
  /\ lines[n + 2] # <<>>

\* C6: in the text written for a document walk assembled, every '---'
\* separator line has exactly one blank line before it and exactly one after.
C6_OneBlankLineAroundSeparators ==
  (prog = "vite" /\ status = "written") =>
    LET lines == split(outFile.sections, "\n")
    IN  \A n \in 1..Len(lines) : lines[n] = <<"-","-","-">> => OneBlankLineAround(lines, n)

\* a file under a directory named blog or changes, or named releases.md or
\* release-notes.md
BlogOrReleaseNotes(f) ==
  \/ \E a \in Ancestors(f) : fs[a].name \in {<<"b","l","o","g">>, <<"c","h","a","n","g","e","s">>}
  \/ fs[f].name \in {<<"r","e","l","e","a","s","e","s",".","m","d">>, <<"r","e","l","e","a","s","e","-","n","o","t","e","s",".","m","d">>}

InHiddenDirectory(f) == \E a \in Ancestors(f) : startsWith(fs[a].name, <<".">>)

\* C9: with the option false, after the walk no Markdown file under blog or
\* changes and no releases.md or release-notes.md has a section, and every
\* other readable Markdown file in a non-hidden directory has one; with the
\* option true shouldIncludeFile accepts every file.
C9_BlogAndReleaseNotesFilter ==
  (prog = "vite" /\ status \in {"walked", "written"}) =>
    /\ ~includeBlog =>
         \A f \in Files :
           /\ BlogOrReleaseNotes(f) => SectionsOf(f) = {}
           /\ ( /\ ~BlogOrReleaseNotes(f)
                /\ ~InHiddenDirectory(f)
                /\ IsMarkdownName(fs[f].name)
                /\ fs[f].ok ) => Cardinality(SectionsOf(f)) = 1
    /\ includeBlog => \A f \in Files : shouldIncludeFile(fullPathOf(f))

\* C10: a section is appended and the file counted if and only if the text
\* extracted from the file is not empty after trimming: no section of the
\* output has an empty body, in crawlDir and in walk.
C10_NoEmptySection ==
  /\ prog = "universal" =>
       /\ \A n \in 1..Len(output) : trim(output[n].text) # <<>>
       /\ \A n \in 1..Len(visited) :
            LET f == visited[n]
                ext == toLowerCase(pathExtname(fs[f].name))
                cleaned == extractReadableContent(relPath(f), safeRead(f))
            IN  (ext \in includeExts /\ ext \notin skipExts) =>
                  ( (\E k \in 1..Len(output) : output[k].file = relPath(f))
                    <=> (cleaned.type = "string" /\ trim(cleaned.val) # <<>>) )
  /\ prog = "vite" =>
       /\ fileCount = Len(sections)
       /\ \A k \in 1..Len(sections) : sections[k].body # <<>>
       /\ \A n \in 1..Len(visited) :
            ReadByWalk(visited[n]) =>
              (SectionsOf(visited[n]) # {} <=>
                 trim(CleanedContent(visited[n])) # <<>>)

====
